---------------------------- MODULE Spec2Model ----------------------------
(***************************************************************************)
(* The CSV <-> JSON converter of src/src/components/Converter.tsx.         *)
(*                                                                         *)
(* A text is a sequence of one-character strings.  An optional value is a  *)
(* sequence of length at most one (<<>> is null / absent).  A JavaScript   *)
(* object is the sequence of its own <<key, value>> pairs in the order     *)
(* Object.keys lists them.                                                 *)
(***************************************************************************)
EXTENDS Integers, Sequences, FiniteSets, TLC

VARIABLES
    input,        \* useState('')            : text of the input pane
    output,       \* useState('')            : text of the output pane
    error,        \* useState(null)          : <<>> or <<[message, details]>>
    mode,         \* useState('csv2json')    : "csv2json" | "json2csv"
    pending,      \* FileReader reads started and not yet completed
    outputMode,   \* history: mode of the convertData run that set output
    parserCalls,  \* history: parsers invoked by the latest convertData run
    lastEvent,    \* history: the handler that ran last
    download,     \* the file the latest handler saved: <<>> or <<[name, text, producedBy]>>
    arg,          \* pure-function runs: the argument text
    parsed,       \* pure-function runs: <<>> or <<result of the parser>>
    serialized,   \* pure-function runs: <<>> or <<CSV text of the serializer>>
    reparsed      \* pure-function runs: <<>> or <<parseCSV of that text>>

vars == <<input, output, error, mode, pending, outputMode, parserCalls,
          lastEvent, download, arg, parsed, serialized, reparsed>>

uiVars == <<input, output, error, mode, pending, outputMode, parserCalls,
            lastEvent, download>>

fnVars == <<arg, parsed, serialized, reparsed>>

----------------------------------------------------------------------------
(* Bounds of the model.                                                    *)

MaxLen == 6

MaxRecords == 2

MaxPending == 2

----------------------------------------------------------------------------
(* String primitives of the JavaScript runtime, as the code uses them.     *)

Digits == <<"0", "1", "2", "3", "4", "5", "6", "7", "8", "9">>

IsDigit(c) == \E d \in 1..10 : Digits[d] = c

DigitVal(c) == (CHOOSE d \in 1..10 : Digits[d] = c) - 1

\* String.prototype.trim removes white space and line terminators.
IsWS(c) == c \in {" ", "\t", "\n", "\r"}

\* The text without its leading white space.
TrimStart(s) ==
    LET keep == {i \in 1..Len(s) : ~IsWS(s[i])}
    IN  IF keep = {} THEN <<>>
        ELSE SubSeq(s, CHOOSE i \in keep : \A j \in keep : i <= j, Len(s))

\* The text without its trailing white space.
TrimEnd(s) ==
    LET keep == {i \in 1..Len(s) : ~IsWS(s[i])}
    IN  IF keep = {} THEN <<>>
        ELSE SubSeq(s, 1, CHOOSE i \in keep : \A j \in keep : i >= j)

Trim(s) == TrimEnd(TrimStart(s))

\* The k-th smallest member of a set of numbers.
Nth(S, k) == CHOOSE x \in S : Cardinality({y \in S : y < x}) = k - 1

\* s.split(/\r\n|\n/): a separator ends at each "\n" and takes the "\r"
\* right before it, if there is one.
SplitLines(s) ==
    LET ends == {i \in 1..Len(s) : s[i] = "\n"}
        n == Cardinality(ends)
        from(k) == IF k = 1 THEN 1 ELSE Nth(ends, k - 1) + 1
        to(k) == IF k = n + 1 THEN Len(s)
                 ELSE LET e == Nth(ends, k)
                      IN  IF e - 1 >= from(k) /\ s[e - 1] = "\r" THEN e - 2 ELSE e - 1
    IN  [k \in 1..(n + 1) |-> SubSeq(s, from(k), to(k))]

\* s.split(',')
SplitComma(s) ==
    LET seps == {i \in 1..Len(s) : s[i] = ","}
        n == Cardinality(seps)
        from(k) == IF k = 1 THEN 1 ELSE Nth(seps, k - 1) + 1
        to(k) == IF k = n + 1 THEN Len(s) ELSE Nth(seps, k) - 1
    IN  [k \in 1..(n + 1) |-> SubSeq(s, from(k), to(k))]

\* parts.join(sep)
RECURSIVE Join(_, _)
Join(parts, sep) ==
    IF parts = <<>> THEN <<>>
    ELSE IF Len(parts) = 1 THEN parts[1]
    ELSE parts[1] \o sep \o Join(Tail(parts), sep)

\* s.includes(c)
Includes(s, c) == \E i \in 1..Len(s) : s[i] = c

MapTrim(parts) == [i \in 1..Len(parts) |-> Trim(parts[i])]

----------------------------------------------------------------------------
(* JavaScript objects: own properties in Object.keys order.  Keys that are *)
(* canonical array indices come first, in ascending numeric order; the     *)
(* other string keys follow in insertion order.                            *)

RECURSIVE NumVal(_)
NumVal(s) ==
    IF s = <<>> THEN 0 ELSE NumVal(SubSeq(s, 1, Len(s) - 1)) * 10 + DigitVal(s[Len(s)])

\* k is the canonical decimal text of an array index.  Indices run up to
\* 2^32 - 2; the keys of the model have at most 9 digits.
IsIndexKey(k) ==
    /\ k # <<>>
    /\ Len(k) <= 9
    /\ \A i \in 1..Len(k) : IsDigit(k[i])
    /\ (Len(k) > 1 => k[1] # "0")

HasOwn(obj, k) == \E i \in 1..Len(obj) : obj[i][1] = k

OwnValue(obj, k) == obj[CHOOSE i \in 1..Len(obj) : obj[i][1] = k][2]

ObjectKeys(obj) == [i \in 1..Len(obj) |-> obj[i][1]]

TxtProto ==
    <<"_", "_", "p", "r", "o", "t", "o", "_", "_">>

\* A new own data property k of obj, or a new value for the one it has.
DefineOwn(obj, k, v) ==
    IF HasOwn(obj, k)
    THEN [i \in 1..Len(obj) |-> IF obj[i][1] = k THEN <<k, v>> ELSE obj[i]]
    ELSE IF IsIndexKey(k)
    THEN LET before == {i \in 1..Len(obj) :
                           IsIndexKey(obj[i][1]) /\ NumVal(obj[i][1]) < NumVal(k)}
             n == Cardinality(before)
         IN  SubSeq(obj, 1, n) \o << <<k, v>> >> \o SubSeq(obj, n + 1, Len(obj))
    ELSE Append(obj, <<k, v>>)

\* obj[k] = v, for an object literal obj and a string v: assigning a string
\* to __proto__ runs the inherited setter, which ignores it.
ObjSet(obj, k, v) ==
    IF k = TxtProto THEN obj
    ELSE DefineOwn(obj, k, v)

----------------------------------------------------------------------------
(* parseCSV                                                                *)

Failure(m) == [ok |-> FALSE, val |-> <<>>,
               err |-> [msg |-> m, row |-> 0, actual |-> 0, expected |-> 0]]

RowFailure(r, a, e) ==
    [ok |-> FALSE, val |-> <<>>,
     err |-> [msg |-> "Row has values but should have (matching headers)",
              row |-> r, actual |-> a, expected |-> e]]

Success(v) == [ok |-> TRUE, val |-> v,
               err |-> [msg |-> "", row |-> 0, actual |-> 0, expected |-> 0]]

\* headers.reduce((obj, header, i) => { obj[header] = values[i] || ''; ... }, {})
RECURSIVE ReduceRecord(_, _, _, _)
ReduceRecord(obj, headers, values, i) ==
    IF i > Len(headers) THEN obj
    ELSE ReduceRecord(
            ObjSet(obj, headers[i], IF values[i] = <<>> THEN <<>> ELSE values[i]),
            headers, values, i + 1)

\* Mutant of RowNumber: the 0-based index offset by one instead of two.
RowNumberOffByOne(pos) == (pos - 2) + 1

\* The number in `Row ${index + 2}`: index is 0-based over lines.slice(1),
\* pos is the 1-based position of the line in lines.
RowNumber(pos) == (pos - 2) + 2

parseCSV(csv) ==
    LET lines == SplitLines(Trim(csv))
    IN  IF Len(lines) < 2
        THEN Failure("CSV must contain at least a header row and one data row")
        ELSE
        LET headers == MapTrim(SplitComma(lines[1]))
            values(p) == MapTrim(SplitComma(lines[p]))
            bad == {p \in 2..Len(lines) : Len(values(p)) # Len(headers)}
        IN  IF \E i \in 1..Len(headers) : headers[i] = <<>>
            THEN Failure("CSV headers cannot be empty")
            ELSE IF bad # {}
            THEN LET p == CHOOSE q \in bad : \A r \in bad : q <= r
                 IN  RowFailure(RowNumber(p), Len(values(p)), Len(headers))
            ELSE Success([k \in 1..(Len(lines) - 1) |->
                             ReduceRecord(<<>>, headers, values(k + 1), 1)])

----------------------------------------------------------------------------
(* Pure-function runs of parseCSV over every text up to MaxLen.            *)

CsvAlphabet == {"a", "1", ",", " ", "\n", "\r"}

Texts(alphabet, n) == UNION {[1..k -> alphabet] : k \in 0..n}

InitUI ==
    /\ input = <<>>
    /\ output = <<>>
    /\ error = <<>>
    /\ mode = "csv2json"
    /\ pending = {}
    /\ outputMode = "none"
    /\ parserCalls = {}
    /\ lastEvent = "init"
    /\ download = <<>>

InitCSV ==
    /\ InitUI
    /\ arg \in Texts(CsvAlphabet, MaxLen)
    /\ parsed = <<>>
    /\ serialized = <<>>
    /\ reparsed = <<>>

CallParseCSV ==
    /\ parsed = <<>>
    /\ parsed' = <<parseCSV(arg)>>
    /\ UNCHANGED <<arg, serialized, reparsed>>
    /\ UNCHANGED uiVars

NextCSV == CallParseCSV

SpecCSV == InitCSV /\ [][NextCSV]_vars

----------------------------------------------------------------------------
(* JavaScript values.  t is the kind; s the text of a string, the decimal  *)
(* digits of a number, the literal of a boolean or the name of a function; *)
(* items the elements of an array; props the own properties of an object.  *)

JNull == [t |-> "null", s |-> <<>>, items |-> <<>>, props |-> <<>>]

JBool(lit) == [t |-> "bool", s |-> lit, items |-> <<>>, props |-> <<>>]

JNum(digits) == [t |-> "num", s |-> digits, items |-> <<>>, props |-> <<>>]

JStr(text) == [t |-> "str", s |-> text, items |-> <<>>, props |-> <<>>]

JArr(elems) == [t |-> "arr", s |-> <<>>, items |-> elems, props |-> <<>>]

JObj(members) == [t |-> "obj", s |-> <<>>, items |-> <<>>, props |-> members]

JFun(name) == [t |-> "fun", s |-> name, items |-> <<>>, props |-> <<>>]

TxtNull ==
    <<"n", "u", "l", "l">>

TxtTrue ==
    <<"t", "r", "u", "e">>

TxtFalse ==
    <<"f", "a", "l", "s", "e">>

TxtObjectObject ==
    <<"[", "o", "b", "j", "e", "c", "t", " ", "O", "b", "j", "e", "c", "t",
      "]">>

TxtFunction ==
    <<"f", "u", "n", "c", "t", "i", "o", "n", " ">>

TxtNativeCode ==
    <<"(", ")", " ", "{", " ", "[", "n", "a", "t", "i", "v", "e", " ", "c",
      "o", "d", "e", "]", " ", "}">>

TxtLength ==
    <<"l", "e", "n", "g", "t", "h">>

TxtConstructor ==
    <<"c", "o", "n", "s", "t", "r", "u", "c", "t", "o", "r">>

TxtObject ==
    <<"O", "b", "j", "e", "c", "t">>

TxtArray ==
    <<"A", "r", "r", "a", "y">>

\* Names of the functions every object inherits from Object.prototype.
ObjectPrototypeKeys ==
    {<<"c", "o", "n", "s", "t", "r", "u", "c", "t", "o", "r">>,
     <<"t", "o", "S", "t", "r", "i", "n", "g">>,
     <<"v", "a", "l", "u", "e", "O", "f">>,
     <<"h", "a", "s", "O", "w", "n", "P",
       "r", "o", "p", "e", "r", "t", "y">>,
     <<"i", "s", "P", "r", "o", "t", "o", "t", "y", "p", "e", "O", "f">>,
     <<"t", "o", "L", "o", "c", "a", "l",
       "e", "S", "t", "r", "i", "n", "g">>,
     <<"p", "r", "o", "p", "e", "r", "t", "y", "I", "s",
       "E", "n", "u", "m", "e", "r", "a", "b", "l", "e">>}

StartsWith(s, prefix) ==
    Len(s) >= Len(prefix) /\ SubSeq(s, 1, Len(prefix)) = prefix

Drop(s, n) == SubSeq(s, n + 1, Len(s))

----------------------------------------------------------------------------
(* JSON.parse, for the JSON texts of the model: null, true, false,         *)
(* unsigned integers, strings with the escapes \" \\ \/ \n \r \t, arrays   *)
(* and objects, with white space between tokens.                           *)

ParseFail == [ok |-> FALSE, val |-> JNull, rest |-> <<>>]

ParseOk(v, r) == [ok |-> TRUE, val |-> v, rest |-> r]

Unescape(c) ==
    CASE c = "n" -> "\n"
      [] c = "r" -> "\r"
      [] c = "t" -> "\t"
      [] OTHER -> c

\* The characters after an opening quote, up to the closing quote.
RECURSIVE ParseString(_, _)
ParseString(s, acc) ==
    IF s = <<>> THEN ParseFail
    ELSE IF s[1] = "\"" THEN ParseOk(JStr(acc), Tail(s))
    ELSE IF s[1] = "\\"
         THEN IF Len(s) >= 2 /\ s[2] \in {"\"", "\\", "/", "n", "r", "t"}
              THEN ParseString(Drop(s, 2), Append(acc, Unescape(s[2])))
              ELSE ParseFail
    ELSE IF s[1] \in {"\n", "\r", "\t"} THEN ParseFail
    ELSE ParseString(Tail(s), Append(acc, s[1]))

RECURSIVE ParseDigits(_, _)
ParseDigits(s, acc) ==
    IF s # <<>> /\ IsDigit(s[1]) /\ acc # <<"0">>
    THEN ParseDigits(Tail(s), Append(acc, s[1]))
    ELSE ParseOk(JNum(acc), s)

RECURSIVE ParseValue(_)
RECURSIVE ParseElements(_, _)
RECURSIVE ParseMembers(_, _)

ParseValue(s0) ==
    LET s == TrimStart(s0)
    IN  IF s = <<>> THEN ParseFail
        ELSE IF StartsWith(s, TxtNull) THEN ParseOk(JNull, Drop(s, 4))
        ELSE IF StartsWith(s, TxtTrue) THEN ParseOk(JBool(TxtTrue), Drop(s, 4))
        ELSE IF StartsWith(s, TxtFalse) THEN ParseOk(JBool(TxtFalse), Drop(s, 5))
        ELSE IF s[1] = "\"" THEN ParseString(Tail(s), <<>>)
        ELSE IF IsDigit(s[1]) THEN ParseDigits(s, <<>>)
        ELSE IF s[1] = "["
             THEN LET t == TrimStart(Tail(s))
                  IN  IF t # <<>> /\ t[1] = "]"
                      THEN ParseOk(JArr(<<>>), Tail(t))
                      ELSE ParseElements(Tail(s), <<>>)
        ELSE IF s[1] = "{"
             THEN LET t == TrimStart(Tail(s))
                  IN  IF t # <<>> /\ t[1] = "}"
                      THEN ParseOk(JObj(<<>>), Tail(t))
                      ELSE ParseMembers(Tail(s), <<>>)
        ELSE ParseFail

ParseElements(s, acc) ==
    LET r == ParseValue(s)
        t == TrimStart(r.rest)
    IN  IF ~r.ok \/ t = <<>> THEN ParseFail
        ELSE IF t[1] = "," THEN ParseElements(Tail(t), Append(acc, r.val))
        ELSE IF t[1] = "]" THEN ParseOk(JArr(Append(acc, r.val)), Tail(t))
        ELSE ParseFail

ParseMembers(s, obj) ==
    LET t == TrimStart(s)
        k == IF t # <<>> /\ t[1] = "\"" THEN ParseString(Tail(t), <<>>) ELSE ParseFail
        c == TrimStart(k.rest)
        v == IF k.ok /\ c # <<>> /\ c[1] = ":" THEN ParseValue(Tail(c)) ELSE ParseFail
        e == TrimStart(v.rest)
    IN  IF ~v.ok \/ e = <<>> THEN ParseFail
        ELSE IF e[1] = "," THEN ParseMembers(Tail(e), DefineOwn(obj, k.val.s, v.val))
        ELSE IF e[1] = "}" THEN ParseOk(JObj(DefineOwn(obj, k.val.s, v.val)), Tail(e))
        ELSE ParseFail

\* JSON.parse(text): <<>> when it throws a SyntaxError, else <<value>>.
JSONparse(text) ==
    LET r == ParseValue(text)
    IN  IF r.ok /\ TrimStart(r.rest) = <<>> THEN <<r.val>> ELSE <<>>

----------------------------------------------------------------------------
(* parseJSON                                                               *)

\* typeof item === 'object' && item !== null
IsObjectItem(item) == item.t \in {"obj", "arr", "null"} /\ item.t # "null"

parseJSON(json) ==
    LET data == JSONparse(json)
    IN  IF data = <<>> THEN Failure("SyntaxError")
        ELSE IF data[1].t # "arr"
        THEN Failure("Input must be an array of objects")
        ELSE IF Len(data[1].items) = 0
        THEN Failure("JSON array cannot be empty")
        ELSE IF ~(\A i \in 1..Len(data[1].items) : IsObjectItem(data[1].items[i]))
        THEN Failure("All items in the array must be objects")
        ELSE Success(data[1].items)

----------------------------------------------------------------------------
(* The JSON -> CSV serializer of convertData.                              *)

\* The decimal text of a natural number.
RECURSIVE NumText(_)
NumText(n) ==
    IF n < 10 THEN <<Digits[n + 1]>> ELSE NumText(n \div 10) \o <<Digits[(n % 10) + 1]>>

\* Object.keys(obj)
Keys(obj) ==
    IF obj.t = "arr" THEN [i \in 1..Len(obj.items) |-> NumText(i - 1)]
    ELSE ObjectKeys(obj.props)

\* jsonData.flatMap(obj => Object.keys(obj))
RECURSIVE FlatMapKeys(_)
FlatMapKeys(jsonData) ==
    IF jsonData = <<>> THEN <<>>
    ELSE Keys(Head(jsonData)) \o FlatMapKeys(Tail(jsonData))

\* Array.from(new Set(keys)): first occurrences, in order.
RECURSIVE SetOrder(_, _)
SetOrder(keys, acc) ==
    IF keys = <<>> THEN acc
    ELSE IF \E i \in 1..Len(acc) : acc[i] = Head(keys)
         THEN SetOrder(Tail(keys), acc)
         ELSE SetOrder(Tail(keys), Append(acc, Head(keys)))

\* obj[header]: <<>> when undefined.  An own property wins; otherwise the
\* property is looked up on the prototype chain: __proto__ is the prototype
\* itself (Object.prototype, or the empty array Array.prototype), and the
\* names of ObjectPrototypeKeys are functions.
PropertyGet(obj, header) ==
    IF obj.t = "arr" /\ IsIndexKey(header) /\ NumVal(header) < Len(obj.items)
    THEN <<obj.items[NumVal(header) + 1]>>
    ELSE IF obj.t = "arr" /\ header = TxtLength
    THEN <<JNum(NumText(Len(obj.items)))>>
    ELSE IF obj.t = "obj" /\ HasOwn(obj.props, header)
    THEN <<OwnValue(obj.props, header)>>
    ELSE IF header = TxtProto
    THEN <<IF obj.t = "arr" THEN JArr(<<>>) ELSE JObj(<<>>)>>
    ELSE IF header \in ObjectPrototypeKeys
    THEN IF header = TxtConstructor
         THEN <<JFun(IF obj.t = "arr" THEN TxtArray ELSE TxtObject)>>
         ELSE <<JFun(header)>>
    ELSE <<>>

\* String(value)
RECURSIVE StringOf(_)
StringOf(value) ==
    CASE value.t = "null" -> TxtNull
      [] value.t = "obj" -> TxtObjectObject
      [] value.t = "fun" -> TxtFunction \o value.s \o TxtNativeCode
      [] value.t = "arr" ->
            Join([i \in 1..Len(value.items) |->
                    IF value.items[i].t = "null" THEN <<>>
                    ELSE StringOf(value.items[i])], <<",">>)
      [] OTHER -> value.s

\* stringValue.replace(/"/g, '""'): each character once, a quote twice.
DoubleQuotes(s) ==
    LET width(i) == IF s[i] = "\"" THEN 2 ELSE 1
        start[i \in 1..(Len(s) + 1)] ==
            i + Cardinality({j \in 1..(i - 1) : s[j] = "\""})
    IN  [p \in 1..(start[Len(s) + 1] - 1) |->
            s[CHOOSE i \in 1..Len(s) : start[i] <= p /\ p < start[i] + width(i)]]

NeedsQuoting(stringValue) ==
    Includes(stringValue, ",") \/ Includes(stringValue, "\"")
        \/ Includes(stringValue, "\n")

\* Mutant of Field: the comma/quote/newline check runs on the raw string
\* content of the value, before it is stringified.
FieldCheckBeforeStringify(obj, header) ==
    LET value == PropertyGet(obj, header)
    IN  IF value = <<>> \/ value[1].t = "null" THEN <<>>
        ELSE LET stringValue == StringOf(value[1])
             IN  IF value[1].t = "str" /\ NeedsQuoting(value[1].s)
                 THEN <<"\"">> \o DoubleQuotes(stringValue) \o <<"\"">>
                 ELSE stringValue

\* The field the serializer emits for obj[header].
Field(obj, header) ==
    LET value == PropertyGet(obj, header)
    IN  IF value = <<>> \/ value[1].t = "null" THEN <<>>
        ELSE LET stringValue == StringOf(value[1])
             IN  IF NeedsQuoting(stringValue)
                 THEN <<"\"">> \o DoubleQuotes(stringValue) \o <<"\"">>
                 ELSE stringValue

UnifiedHeaders(jsonData) == SetOrder(FlatMapKeys(jsonData), <<>>)

\* Mutant of RowFields: the values in the record's own key order instead of
\* the unified header order.
RowFieldsOwnOrder(obj, headers) ==
    [h \in 1..Len(headers) |->
        IF h <= Len(Keys(obj)) THEN Field(obj, Keys(obj)[h]) ELSE <<>>]

\* headers.map(header => ...) for one record.
RowFields(obj, headers) == [h \in 1..Len(headers) |-> Field(obj, headers[h])]

\* jsonData.map(obj => headers.map(header => ...)), before the joins.
CsvRows(jsonData) ==
    [r \in 1..Len(jsonData) |-> RowFields(jsonData[r], UnifiedHeaders(jsonData))]

serializeCSV(jsonData) ==
    Join(<<Join(UnifiedHeaders(jsonData), <<",">>)>> \o
         [r \in 1..Len(jsonData) |-> Join(CsvRows(jsonData)[r], <<",">>)],
         <<"\n">>)

----------------------------------------------------------------------------
(* Pure-function runs of the JSON -> CSV path: parseJSON, the serializer,  *)
(* then parseCSV on the text the serializer produced.                      *)

\* JSON texts of array elements.
ElementTexts ==
    {
     \* {"a":1,"b":2}
     <<"{", "\"", "a", "\"", ":", "1", ",", "\"", "b", "\"", ":", "2", "}">>,
     \* {"a":3,"c":4}
     <<"{", "\"", "a", "\"", ":", "3", ",", "\"", "c", "\"", ":", "4", "}">>,
     \* {"b":"x","a":true}
     <<"{", "\"", "b", "\"", ":", "\"", "x", "\"", ",", "\"", "a", "\"",
       ":", "t", "r", "u", "e", "}">>,
     \* {"a":"x,y"}
     <<"{", "\"", "a", "\"", ":", "\"", "x", ",", "y", "\"", "}">>,
     \* {"a":"q\"r"}
     <<"{", "\"", "a", "\"", ":", "\"", "q", "\\", "\"", "r", "\"", "}">>,
     \* {"a":"l\nm"}
     <<"{", "\"", "a", "\"", ":", "\"", "l", "\\", "n", "m", "\"", "}">>,
     \* {"b":null}
     <<"{", "\"", "b", "\"", ":", "n", "u", "l", "l", "}">>,
     \* {"a":[1,2]}
     <<"{", "\"", "a", "\"", ":", "[", "1", ",", "2", "]", "}">>,
     \* {"valueOf":2}
     <<"{", "\"", "v", "a", "l", "u", "e", "O", "f", "\"", ":", "2", "}">>,
     \* {"b":"y","1":"z"}
     <<"{", "\"", "b", "\"", ":", "\"", "y", "\"", ",", "\"", "1", "\"",
       ":", "\"", "z", "\"", "}">>,
     \* {}
     <<"{", "}">>,
     \* {"a":" x"}
     <<"{", "\"", "a", "\"", ":", "\"", " ", "x", "\"", "}">>,
     \* {"a":""}
     <<"{", "\"", "a", "\"", ":", "\"", "\"", "}">>,
     \* {"a":"x"}
     <<"{", "\"", "a", "\"", ":", "\"", "x", "\"", "}">>,
     \* {"a":{}}
     <<"{", "\"", "a", "\"", ":", "{", "}", "}">>,
     \* {"":1}
     <<"{", "\"", "\"", ":", "1", "}">>,
     \* {"a,b":1}
     <<"{", "\"", "a", ",", "b", "\"", ":", "1", "}">>,
     \* {"__proto__":1}
     <<"{", "\"", "_", "_", "p", "r", "o", "t", "o", "_", "_", "\"", ":", "1", "}">>,
     \* null
     <<"n", "u", "l", "l">>,
     \* 7
     <<"7">>,
     \* [1,2]
     <<"[", "1", ",", "2", "]">>
    }

\* Texts that are no array of elements: other top-level values, malformed
\* JSON, white space.
OtherJsonTexts ==
    {
     \* {"a":1}
     <<"{", "\"", "a", "\"", ":", "1", "}">>,
     \* 7
     <<"7">>,
     \* "s"
     <<"\"", "s", "\"">>,
     \* null
     <<"n", "u", "l", "l">>,
     \* true
     <<"t", "r", "u", "e">>,
     \* [
     <<"[">>,
     \* [1,]
     <<"[", "1", ",", "]">>,
     \* {"a"
     <<"{", "\"", "a", "\"">>,
     \* [{"a":1} ]
     <<"[", "{", "\"", "a", "\"", ":", "1", "}", " ", "]">>,
     \*  \n
     <<" ", "\n">>,
     \* 
     <<>>
    }

JsonTexts ==
    {<<"[">> \o Join(es, <<",">>) \o <<"]">> :
        es \in UNION {[1..k -> ElementTexts] : k \in 0..MaxRecords}}
    \cup OtherJsonTexts

InitJ2C ==
    /\ InitUI
    /\ arg \in JsonTexts
    /\ parsed = <<>>
    /\ serialized = <<>>
    /\ reparsed = <<>>

CallParseJSON ==
    /\ parsed = <<>>
    /\ parsed' = <<parseJSON(arg)>>
    /\ UNCHANGED <<arg, serialized, reparsed>>
    /\ UNCHANGED uiVars

CallSerialize ==
    /\ parsed # <<>>
    /\ parsed[1].ok
    /\ serialized = <<>>
    /\ serialized' = <<[headers |-> UnifiedHeaders(parsed[1].val),
                        rows |-> CsvRows(parsed[1].val),
                        text |-> serializeCSV(parsed[1].val)]>>
    /\ UNCHANGED <<arg, parsed, reparsed>>
    /\ UNCHANGED uiVars

CallReparse ==
    /\ serialized # <<>>
    /\ reparsed = <<>>
    /\ reparsed' = <<parseCSV(serialized[1].text)>>
    /\ UNCHANGED <<arg, parsed, serialized>>
    /\ UNCHANGED uiVars

NextJ2C == CallParseJSON \/ CallSerialize \/ CallReparse

SpecJ2C == InitJ2C /\ [][NextJ2C]_vars

----------------------------------------------------------------------------
(* JSON.stringify(result, null, 2) on the records parseCSV returns.        *)

\* The JSON string literal of a text.
JsonQuote(text) ==
    LET piece(c) ==
            CASE c = "\"" -> <<"\\", "\"">>
              [] c = "\\" -> <<"\\", "\\">>
              [] c = "\n" -> <<"\\", "n">>
              [] c = "\r" -> <<"\\", "r">>
              [] c = "\t" -> <<"\\", "t">>
              [] OTHER -> <<c>>
    IN  <<"\"">> \o Join([i \in 1..Len(text) |-> piece(text[i])], <<>>) \o <<"\"">>

Indent(n) == [i \in 1..n |-> " "]

JsonMember(pair) == Indent(4) \o JsonQuote(pair[1]) \o <<":", " ">> \o JsonQuote(pair[2])

JsonRecord(obj) ==
    IF obj = <<>> THEN Indent(2) \o <<"{", "}">>
    ELSE Indent(2) \o <<"{", "\n">>
         \o Join([i \in 1..Len(obj) |-> JsonMember(obj[i])], <<",", "\n">>)
         \o <<"\n">> \o Indent(2) \o <<"}">>

JSONstringify(result) ==
    IF result = <<>> THEN <<"[", "]">>
    ELSE <<"[", "\n">>
         \o Join([r \in 1..Len(result) |-> JsonRecord(result[r])], <<",", "\n">>)
         \o <<"\n", "]">>

----------------------------------------------------------------------------
(* The component: its state and its event handlers.                        *)

\* Texts the user types or a file holds.
UiInputs ==
    {
     \* 
     <<>>,
     \*  \n
     <<" ", "\n">>,
     \* a,b\n1,2
     <<"a", ",", "b", "\n", "1", ",", "2">>,
     \* a,b\n1
     <<"a", ",", "b", "\n", "1">>,
     \* [{"a":1}]
     <<"[", "{", "\"", "a", "\"", ":", "1", "}", "]">>,
     \* {"a":1}
     <<"{", "\"", "a", "\"", ":", "1", "}">>
    }

\* What a file name ends with.
FileEndings == {".csv", ".json", ".txt"}

NoError == <<>>

ErrorOf(m) == <<[message |-> m, details |-> <<>>]>>

ErrorWithDetails(m, d) == <<[message |-> m, details |-> <<d>>]>>

Handled(event, calls, saved) ==
    /\ lastEvent' = event
    /\ parserCalls' = calls
    /\ download' = saved

\* The textarea's onChange.
EditInput(text) ==
    /\ input' = text
    /\ error' = NoError
    /\ Handled("edit", {}, <<>>)
    /\ UNCHANGED <<output, mode, pending, outputMode>>

\* Mutant of ToggleMode: the mode flips and the stale output stays.
ToggleModeKeepsOutput ==
    /\ mode' = (IF mode = "csv2json" THEN "json2csv" ELSE "csv2json")
    /\ error' = NoError
    /\ Handled("toggle", {}, <<>>)
    /\ UNCHANGED <<input, output, pending, outputMode>>

\* The onClick of the mode toggle button.
ToggleMode ==
    /\ mode' = (IF mode = "csv2json" THEN "json2csv" ELSE "csv2json")
    /\ error' = NoError
    /\ output' = <<>>
    /\ outputMode' = "none"
    /\ Handled("toggle", {}, <<>>)
    /\ UNCHANGED <<input, pending>>

\* Mutant of IsBlank: only the empty text counts as blank.
IsBlankNoTrim(text) == text = <<>>

\* !input.trim()
IsBlank(text) == Trim(text) = <<>>

convertData ==
    IF IsBlank(input)
    THEN /\ error' = ErrorOf("Please enter some data to convert")
         /\ Handled("convert", {}, <<>>)
         /\ UNCHANGED <<input, output, mode, pending, outputMode>>
    ELSE IF mode = "csv2json"
    THEN LET result == parseCSV(input)
         IN  /\ IF result.ok
                THEN /\ output' = JSONstringify(result.val)
                     /\ outputMode' = mode
                     /\ error' = NoError
                ELSE /\ error' = ErrorWithDetails("Conversion failed", result.err)
                     /\ output' = <<>>
                     /\ outputMode' = "none"
             /\ Handled("convert", {"parseCSV"}, <<>>)
             /\ UNCHANGED <<input, mode, pending>>
    ELSE LET jsonData == parseJSON(input)
         IN  /\ IF jsonData.ok
                THEN /\ output' = serializeCSV(jsonData.val)
                     /\ outputMode' = mode
                     /\ error' = NoError
                ELSE /\ error' = ErrorWithDetails("Conversion failed", jsonData.err)
                     /\ output' = <<>>
                     /\ outputMode' = "none"
             /\ Handled("convert", {"parseJSON"}, <<>>)
             /\ UNCHANGED <<input, mode, pending>>

\* handleFileUpload: with a file chosen, a FileReader starts reading it.
handleFileUpload(hasFile, ending, content) ==
    /\ IF hasFile
       THEN /\ Cardinality(pending) < MaxPending
            /\ pending' = pending \cup {[ending |-> ending, content |-> content]}
       ELSE pending' = pending
    /\ Handled("upload", {}, <<>>)
    /\ UNCHANGED <<input, output, error, mode, outputMode>>

\* reader.onload
FileLoaded(file) ==
    /\ file \in pending
    /\ pending' = pending \ {file}
    /\ input' = file.content
    /\ error' = NoError
    /\ mode' = (IF file.ending = ".csv" THEN "csv2json"
                ELSE IF file.ending = ".json" THEN "json2csv"
                ELSE mode)
    /\ Handled("load", {}, <<>>)
    /\ UNCHANGED <<output, outputMode>>

\* reader.onerror
FileReadError(file) ==
    /\ file \in pending
    /\ pending' = pending \ {file}
    /\ error' = ErrorOf("Failed to read file")
    /\ Handled("readerror", {}, <<>>)
    /\ UNCHANGED <<input, output, mode, outputMode>>

\* downloadOutput: the button is rendered only while output is not empty.
downloadOutput ==
    /\ output # <<>>
    /\ Handled("download", {},
               <<[name |-> IF mode = "csv2json" THEN "converted.json" ELSE "converted.csv",
                  text |-> output,
                  producedBy |-> outputMode]>>)
    /\ UNCHANGED <<input, output, error, mode, pending, outputMode>>

Init ==
    /\ InitUI
    /\ arg = <<>>
    /\ parsed = <<>>
    /\ serialized = <<>>
    /\ reparsed = <<>>

Next ==
    \/ \E text \in UiInputs : EditInput(text) /\ UNCHANGED fnVars
    \/ ToggleMode /\ UNCHANGED fnVars
    \/ convertData /\ UNCHANGED fnVars
    \/ \E hasFile \in BOOLEAN, ending \in FileEndings, content \in UiInputs :
          handleFileUpload(hasFile, ending, content) /\ UNCHANGED fnVars
    \/ \E file \in pending : FileLoaded(file) /\ UNCHANGED fnVars
    \/ \E file \in pending : FileReadError(file) /\ UNCHANGED fnVars
    \/ downloadOutput /\ UNCHANGED fnVars

Spec == Init /\ [][Next]_vars

----------------------------------------------------------------------------
(* Claims about the component's state.                                     *)

\* C1: error and output are mutually exclusive in every reachable state: a
\* non-null error comes with an empty output, a non-empty output with a null
\* error.
C1_ErrorOutputExclusive ==
    /\ error # NoError => output = <<>>
    /\ output # <<>> => error = NoError

AllWhiteSpace(text) == \A i \in 1..Len(text) : IsWS(text[i])

\* C2: in both modes, a convert on an input that is empty or all white space
\* ends with error = {message: "Please enter some data to convert"}, without
\* details, and invokes neither parseCSV nor parseJSON.
C2_BlankInputError ==
    (lastEvent = "convert" /\ AllWhiteSpace(input)) =>
        /\ error = <<[message |-> "Please enter some data to convert", details |-> <<>>]>>
        /\ parserCalls = {}

\* A convert in json2csv mode on an input of white space only.
C2_Witness ==
    /\ lastEvent = "convert"
    /\ input # <<>>
    /\ AllWhiteSpace(input)
    /\ mode = "json2csv"
    /\ error # NoError

\* C3: the mode toggle flips mode between csv2json and json2csv, empties
\* output, nulls error and leaves input as it was.
C3_ToggleClears ==
    [][lastEvent' = "toggle" =>
          /\ mode # mode'
          /\ mode' \in {"csv2json", "json2csv"}
          /\ output' = <<>>
          /\ error' = NoError
          /\ input' = input]_vars

\* A toggle back to csv2json with text in the input pane.
C3_Witness ==
    /\ lastEvent = "toggle"
    /\ mode = "csv2json"
    /\ input # <<>>
    /\ output = <<>>
    /\ error = NoError

\* C10: a non-empty output was produced by a conversion in the current mode,
\* so the name of a downloaded file (converted.json for csv2json,
\* converted.csv for json2csv) matches the format of the text in it.
C10_DownloadMatchesOutput ==
    /\ output # <<>> => outputMode = mode
    /\ download # <<>> =>
          download[1].name = (IF download[1].producedBy = "csv2json"
                              THEN "converted.json" ELSE "converted.csv")

----------------------------------------------------------------------------
(* Claims about parseCSV, read off a finished run.                         *)

CsvDone == parsed # <<>>

CsvLines == SplitLines(Trim(arg))

CsvHeaders == MapTrim(SplitComma(CsvLines[1]))

CommaCount(s) == Cardinality({i \in 1..Len(s) : s[i] = ","})

FieldCount(s) == CommaCount(s) + 1

FieldOf(line, i) == Trim(SplitComma(line)[i])

\* C4: every CSV text parseCSV accepts, with header line h1..hn and m data
\* lines, yields exactly m records, each with exactly the n keys h1..hn in
\* header order, record k mapping hi to the trimmed i-th field of data line k.
C4_RecordsMatchHeaders ==
    (CsvDone /\ parsed[1].ok) =>
        LET n == Len(CsvHeaders)
            m == Len(CsvLines) - 1
            recs == parsed[1].val
        IN  /\ Len(recs) = m
            /\ \A k \in 1..m :
                 /\ Len(recs[k]) = n
                 /\ ObjectKeys(recs[k]) = CsvHeaders
                 /\ \A i \in 1..n :
                      recs[k][i][2] = FieldOf(CsvLines[k + 1], i)

\* The data lines whose comma-split field count differs from the header count.
BadLines ==
    {p \in 2..Len(CsvLines) : FieldCount(CsvLines[p]) # FieldCount(CsvLines[1])}

C5_Applies ==
    /\ CsvDone
    /\ Len(CsvLines) >= 2
    /\ \A i \in 1..Len(CsvHeaders) : CsvHeaders[i] # <<>>

\* C5: on a CSV text of at least 2 lines with non-empty headers, parseCSV
\* fails exactly when some data line's field count differs from the header
\* count, and the error carries the 1-based line number (header = line 1) of
\* the first such line of the trimmed input with the actual and expected counts.
C5_RowErrorNamesFirstBadLine ==
    C5_Applies =>
        /\ parsed[1].ok <=> (BadLines = {})
        /\ BadLines # {} =>
             \E p \in BadLines :
                /\ \A q \in BadLines : p <= q
                /\ parsed[1].err.msg = "Row has values but should have (matching headers)"
                /\ parsed[1].err.row = p
                /\ parsed[1].err.actual = FieldCount(CsvLines[p])
                /\ parsed[1].err.expected = FieldCount(CsvLines[1])

\* A run whose first offending line is not the first data line.
C5_Witness ==
    /\ C5_Applies
    /\ BadLines # {}
    /\ 2 \notin BadLines
    /\ ~parsed[1].ok

----------------------------------------------------------------------------
(* Claims about parseJSON and the serializer, read off a finished run.     *)

\* The value JSON.parse gives for the argument, when the text is valid JSON.
ArgIsJson == JSONparse(arg) # <<>>

ArgValue == JSONparse(arg)[1]

IsMapping(v) == v.t = "obj"

ErrorIs(m) == ~parsed[1].ok /\ parsed[1].err.msg = m

\* C6: on syntactically valid JSON, parseJSON succeeds only for a non-empty
\* array whose every element is a non-null mapping; it fails with "Input must
\* be an array of objects" on a non-array, "JSON array cannot be empty" on an
\* empty array, and "All items in the array must be objects" when an element
\* is null, a scalar or otherwise not a mapping.
C6_OnlyArraysOfMappings ==
    (parsed # <<>> /\ ArgIsJson) =>
        /\ parsed[1].ok =>
              /\ ArgValue.t = "arr"
              /\ Len(ArgValue.items) > 0
              /\ \A i \in 1..Len(ArgValue.items) : IsMapping(ArgValue.items[i])
        /\ ArgValue.t # "arr" => ErrorIs("Input must be an array of objects")
        /\ (ArgValue.t = "arr" /\ Len(ArgValue.items) = 0) =>
              ErrorIs("JSON array cannot be empty")
        /\ (ArgValue.t = "arr" /\ Len(ArgValue.items) > 0
              /\ \E i \in 1..Len(ArgValue.items) : ~IsMapping(ArgValue.items[i])) =>
              ErrorIs("All items in the array must be objects")

Serialized == serialized # <<>>

Records == parsed[1].val

AllKeys == UNION {{Keys(Records[r])[i] : i \in 1..Len(Keys(Records[r]))} : r \in 1..Len(Records)}

\* Position of the first occurrence of key k, reading the records in order
\* and each record's keys in order: <<record, index in the record>>.
FirstRecord(k) ==
    CHOOSE r \in 1..Len(Records) :
        /\ \E i \in 1..Len(Keys(Records[r])) : Keys(Records[r])[i] = k
        /\ \A q \in 1..(r - 1) : \A i \in 1..Len(Keys(Records[q])) : Keys(Records[q])[i] # k

FirstIndex(k) ==
    CHOOSE i \in 1..Len(Keys(Records[FirstRecord(k)])) : Keys(Records[FirstRecord(k)])[i] = k

SeenBefore(k1, k2) ==
    \/ FirstRecord(k1) < FirstRecord(k2)
    \/ FirstRecord(k1) = FirstRecord(k2) /\ FirstIndex(k1) < FirstIndex(k2)

\* Key k is missing from record r, or its value there is null.
MissingOrNull(r, k) ==
    \/ \A i \in 1..Len(Keys(Records[r])) : Keys(Records[r])[i] # k
    \/ PropertyGet(Records[r], k)[1].t = "null"

\* C8: the header row is the union of the keys of all records, without
\* duplicates, in first-occurrence order, and every data row has exactly one
\* field per header, the empty string where the key is missing or null.
C8_UnionHeadersNoRaggedRows ==
    Serialized =>
        LET H == serialized[1].headers
            R == serialized[1].rows
        IN  /\ {H[i] : i \in 1..Len(H)} = AllKeys
            /\ \A i, j \in 1..Len(H) : i < j => SeenBefore(H[i], H[j])
            /\ Len(R) = Len(Records)
            /\ \A r \in 1..Len(R) :
                 /\ Len(R[r]) = Len(H)
                 /\ \A h \in 1..Len(H) : MissingOrNull(r, H[h]) => R[r][h] = <<>>

HasSpecial(s) == \E i \in 1..Len(s) : s[i] \in {",", "\"", "\n"}

QuotesIn(s) == Cardinality({i \in 1..Len(s) : s[i] = "\""})

\* q is s wrapped in double quotes with every inner double quote doubled:
\* dropping the wrapping and the second quote of each pair gives back s.
IsQuoted(s, q) ==
    /\ Len(q) = Len(s) + QuotesIn(s) + 2
    /\ q[1] = "\"" /\ q[Len(q)] = "\""
    /\ \A i \in 1..Len(s) :
          LET at == 1 + i + QuotesIn(SubSeq(s, 1, i - 1))
          IN  /\ q[at] = s[i]
              /\ s[i] = "\"" => q[at + 1] = "\""

\* C9: for a field value that is neither null nor undefined the emitted field
\* is the stringified value wrapped in quotes, inner quotes doubled, exactly
\* when the stringified value holds a comma, a double quote or a newline;
\* otherwise it is the stringified value unchanged.
C9_EscapeAfterStringify ==
    Serialized =>
        \A r \in 1..Len(Records) : \A h \in 1..Len(serialized[1].headers) :
            LET value == PropertyGet(Records[r], serialized[1].headers[h])
            IN  (value # <<>> /\ value[1].t # "null") =>
                   IF HasSpecial(StringOf(value[1]))
                   THEN IsQuoted(StringOf(value[1]), serialized[1].rows[r][h])
                   ELSE serialized[1].rows[r][h] = StringOf(value[1])

\* A run that emitted a quoted field for a value that is not a string, and an
\* unquoted field too.
C9_Witness ==
    /\ Serialized
    /\ \E r \in 1..Len(Records) : \E h \in 1..Len(serialized[1].headers) :
          LET value == PropertyGet(Records[r], serialized[1].headers[h])
          IN  /\ value # <<>>
              /\ value[1].t = "arr"
              /\ HasSpecial(StringOf(value[1]))
              /\ IsQuoted(StringOf(value[1]), serialized[1].rows[r][h])
    /\ \E r \in 1..Len(Records) : \E h \in 1..Len(serialized[1].headers) :
          LET value == PropertyGet(Records[r], serialized[1].headers[h])
          IN  /\ value # <<>>
              /\ value[1].t = "str"
              /\ value[1].s # <<>>
              /\ serialized[1].rows[r][h] = value[1].s

----------------------------------------------------------------------------
(* Round trip: parseCSV on the text the serializer produced.               *)

Reparsed == reparsed # <<>>

KeySet(keys) == {keys[i] : i \in 1..Len(keys)}

\* The text a field value reads as after the round trip: String(value),
\* and the empty string for null.
Stringified(value) == IF value.t = "null" THEN <<>> ELSE StringOf(value)

OwnStringified(r, k) == Stringified(PropertyGet(Records[r], k)[1])

NoSpecialValues ==
    \A r \in 1..Len(Records) : \A k \in KeySet(Keys(Records[r])) :
        ~HasSpecial(OwnStringified(r, k))

SameRecords ==
    /\ reparsed[1].ok
    /\ Len(reparsed[1].val) = Len(Records)
    /\ \A r \in 1..Len(Records) :
          /\ KeySet(ObjectKeys(reparsed[1].val[r])) = KeySet(Keys(Records[r]))
          /\ \A k \in KeySet(Keys(Records[r])) :
                /\ HasOwn(reparsed[1].val[r], k)
                /\ OwnValue(reparsed[1].val[r], k) = OwnStringified(r, k)

\* C7 as stated: for every accepted record set whose field values hold no
\* comma, double quote or newline, parseCSV of the serializer's text succeeds
\* and gives back the same records (count, keys, values) up to stringification.
C7_RoundTrip ==
    (Reparsed /\ NoSpecialValues) => SameRecords

\* A key or value text the naive parser reads back unchanged.
Plain(text) == ~HasSpecial(text) /\ Trim(text) = text

\* Every record defines every column with a value that is not null.
Rectangular ==
    \A r \in 1..Len(Records) :
        /\ KeySet(Keys(Records[r])) = AllKeys
        /\ \A k \in AllKeys : PropertyGet(Records[r], k)[1].t # "null"

\* The last line of the CSV text is blank: one column, last value empty.
LastRowBlank ==
    Cardinality(AllKeys) = 1 /\ \A k \in AllKeys : OwnStringified(Len(Records), k) = <<>>

RoundTripInput ==
    /\ AllKeys # {}
    /\ \A k \in AllKeys : k # <<>> /\ k # TxtProto /\ Plain(k)
    /\ Rectangular
    /\ \A r \in 1..Len(Records) : \A k \in AllKeys : Plain(OwnStringified(r, k))
    /\ ~LastRowBlank

\* C7 amended: the round trip holds for record sets with at least one
\* column, in which every record defines every column with a non-null value,
\* every key is non-empty and not __proto__, every key and stringified value holds no comma,
\* double quote or newline and no leading or trailing white space, and the
\* last row is not blank (more than one column, or a non-empty last value).
C7_RoundTripAmended ==
    (Reparsed /\ RoundTripInput) => SameRecords

\* A round trip of two records with two columns, one value not a string.
C7_Witness ==
    /\ Reparsed
    /\ RoundTripInput
    /\ Len(Records) = 2
    /\ \A r \in 1..2 : IsMapping(Records[r])
    /\ Cardinality(AllKeys) = 2
    /\ \E k \in AllKeys : PropertyGet(Records[1], k)[1].t \notin {"str", "null"}
    /\ SameRecords

=============================================================================
